---- MODULE Spec2Model ----
(***************************************************************************)
(* Model of ompi/mca/common/ompio/common_ompio_buffer.c: the process-wide  *)
(* staging-buffer allocator of the OMPIO framework.                        *)
(*                                                                         *)
(* Spec     the facade (alloc_init, alloc_fini, alloc_buf, release_buf)    *)
(*          called by NumThreads threads, one source statement per step.   *)
(* InitSpec alloc_init alone, called by every thread.                      *)
(* SegSpec  the segment callbacks (buffer_alloc_seg, buffer_free_seg) the  *)
(*          allocator strategy calls back, on bounded inputs.              *)
(***************************************************************************)
EXTENDS Integers, FiniteSets, Sequences, TLC

\* ---------------------------------------------------------------- bounds
NumThreads == 2          \* threads calling the facade
MaxInit == 2             \* alloc_init is called by the application while the counter is below
SizeBits == 20           \* modelled width of size_t
MaxPages == 2            \* requested sizes are taken around 0..MaxPages pages
MaxSegs == 2             \* raw buffers malloc can hand out

\* ------------------------------------------------------- program constants
NULL == 0                            \* a null pointer / handle
DefaultPageSize == 4096              \* static initialiser of mca_common_ompio_pagesize
OMPI_SUCCESS == "OMPI_SUCCESS"
OMPI_ERR_BUFFER == "OMPI_ERR_BUFFER"

Threads == 1..NumThreads
NoOwner == 0
SizeMod == 2 ^ SizeBits              \* size_t arithmetic is modulo SizeMod
SIZE_MAX == SizeMod - 1
PageSizes == {4096, 16384}           \* values opal_getpagesize() may report

VARIABLES
    \* file-scope statics of common_ompio_buffer.c
    buffer_init,       \* mca_common_ompio_buffer_init
    component,         \* mca_common_ompio_allocator_component: "NULL" or "basic"
    allocator,         \* mca_common_ompio_allocator: NULL or a handle id
    pagesize,          \* mca_common_ompio_pagesize
    mutex,             \* mca_common_ompio_buffer_mutex: [state, owner]
    \* the environment
    hstate,            \* hstate[h]: "live" | "finalizing" | "dead" for each handle made
    fault,             \* the process has crashed
    \* per thread
    pc,                \* position in the running facade function
    op,                \* the facade function the thread is in: "none","init","fini","alloc","release"
    rc,                \* its return value, once pc is "done"
    cur,               \* handle the thread passed to the strategy operation it is in
    \* history
    nAllocatorInit,    \* calls of component->allocator_init
    nFinalize,         \* calls of alc_finalize through a non-null handle
    nConstruct,        \* OBJ_CONSTRUCTs of the mutex
    nDestruct,         \* OBJ_DESTRUCTs of the mutex
    nullDeref,         \* strategy operations invoked through a NULL handle
    failed,            \* construction failures seen: subset of {"lookup","construct"}
    \* segment callbacks (SegSpec)
    segreq,            \* *size on entry of buffer_alloc_seg
    segsize,           \* *size on return
    segbuf,            \* pointer buffer_alloc_seg returned last
    segs,              \* segs[b]: raw buffer b, [st: "none"|"live"|"freed", reg: registered,
                       \*   unreg: host_unregister was called on it]
    segfree,           \* the last free_seg call: its argument and the calls it made
    \* a single caller, one facade call per step (SeqSpec)
    seq,               \* the last call and how far an alloc/release/alloc round trip got
    \* mca_common_ompio_check_gpu_buf (ClassifySpec)
    cls                \* the last classification: inputs, runtime answer, outputs

facadeVars == <<buffer_init, component, allocator, mutex, hstate, fault,
                pc, op, rc, cur, nAllocatorInit, nFinalize, nConstruct,
                nDestruct, nullDeref, failed>>
segVars == <<segreq, segsize, segbuf, segs, segfree>>
seqVars == <<seq>>
clsVars == <<cls>>
vars == <<facadeVars, pagesize, segVars, seqVars, clsVars>>

\* ------------------------------------------------------------ opal_mutex_t
\* OPAL_THREAD_LOCK (lines 108, 134, 152, 169).  On a constructed mutex the caller
\* blocks until it is free.  On storage that was never constructed, or was
\* destructed, the call is undefined: it may still behave as a lock, it may fail
\* (the macro discards the result, so the caller goes on without the lock), or
\* the process may crash.
LockStep(t) ==
    \/ /\ mutex.state = "constructed"
       /\ mutex.owner = NoOwner
       /\ mutex' = [mutex EXCEPT !.owner = t]
       /\ UNCHANGED fault
    \/ /\ mutex.state # "constructed"
       /\ \/ /\ mutex.owner = NoOwner
             /\ mutex' = [mutex EXCEPT !.owner = t]
             /\ UNCHANGED fault
          \/ UNCHANGED <<mutex, fault>>
          \/ /\ fault' = TRUE
             /\ UNCHANGED mutex

\* OPAL_THREAD_UNLOCK (lines 111, 121, 127, 137, 155, 172).  Unlocking a mutex the
\* caller does not own, or one that is not constructed, is undefined: the mutex
\* ends up free, or is left as it was.
UnlockStep(t) ==
    \/ /\ mutex.state = "constructed"
       /\ mutex.owner = t
       /\ mutex' = [mutex EXCEPT !.owner = NoOwner]
    \/ /\ ~(mutex.state = "constructed" /\ mutex.owner = t)
       /\ \/ mutex' = [mutex EXCEPT !.owner = NoOwner]
          \/ UNCHANGED mutex

\* pc after a step of thread t that may have crashed the process
Goto(t, nxt) == pc' = IF fault' THEN pc ELSE [pc EXCEPT ![t] = nxt]

\* ------------------------------------------- mca_common_ompio_buffer_alloc_init
\* faulty variant of the test below: the second caller constructs as well
SkipsConstructionLate(v) == v > 2

\* line 102: the callers whose fetch-and-add result is above 1 return at once
SkipsConstruction(v) == v > 1

\* `return code;` of alloc_init: to the application, or back into alloc_buf line 152
InitReturn(t, code) ==
    IF op[t] = "alloc"
      THEN /\ pc' = [pc EXCEPT ![t] = "ab_lock"]
           /\ UNCHANGED rc
      ELSE /\ pc' = [pc EXCEPT ![t] = "done"]
           /\ rc' = [rc EXCEPT ![t] = code]

\* line 102, entered from the application
InitFetch(t) ==
    /\ ~fault
    /\ pc[t] = "idle"
    /\ buffer_init < MaxInit
    /\ buffer_init' = buffer_init + 1
    /\ op' = [op EXCEPT ![t] = "init"]
    /\ IF SkipsConstruction(buffer_init + 1)
         THEN /\ rc' = [rc EXCEPT ![t] = OMPI_SUCCESS]
              /\ pc' = [pc EXCEPT ![t] = "done"]
         ELSE /\ pc' = [pc EXCEPT ![t] = "init_construct"]
              /\ UNCHANGED rc
    /\ UNCHANGED <<component, allocator, pagesize, mutex, hstate, fault, cur,
                   nAllocatorInit, nFinalize, nConstruct, nDestruct, nullDeref, failed,
                   segVars, seqVars, clsVars>>

\* line 102, entered from alloc_buf line 149
InitFetchFromAlloc(t) ==
    /\ ~fault
    /\ pc[t] = "ab_init"
    /\ buffer_init' = buffer_init + 1
    /\ IF SkipsConstruction(buffer_init + 1)
         THEN pc' = [pc EXCEPT ![t] = "ab_lock"]
         ELSE pc' = [pc EXCEPT ![t] = "init_construct"]
    /\ UNCHANGED <<component, allocator, pagesize, mutex, hstate, fault, op, rc, cur,
                   nAllocatorInit, nFinalize, nConstruct, nDestruct, nullDeref, failed,
                   segVars, seqVars, clsVars>>

\* line 106: OBJ_CONSTRUCT re-initialises the mutex storage, whoever holds it
InitConstruct(t) ==
    /\ ~fault
    /\ pc[t] = "init_construct"
    /\ mutex' = [state |-> "constructed", owner |-> NoOwner]
    /\ nConstruct' = nConstruct + 1
    /\ pc' = [pc EXCEPT ![t] = "init_lock"]
    /\ UNCHANGED <<buffer_init, component, allocator, pagesize, hstate, fault, op, rc, cur,
                   nAllocatorInit, nFinalize, nDestruct, nullDeref, failed, segVars, seqVars,
                   clsVars>>

\* line 108
InitLock(t) ==
    /\ ~fault
    /\ pc[t] = "init_lock"
    /\ LockStep(t)
    /\ Goto(t, "init_lookup")
    /\ UNCHANGED <<buffer_init, component, allocator, pagesize, hstate, op, rc, cur,
                   nAllocatorInit, nFinalize, nConstruct, nDestruct, nullDeref, failed,
                   segVars, seqVars, clsVars>>

\* line 110: mca_allocator_component_lookup("basic") finds the component or not
InitLookup(t) ==
    /\ ~fault
    /\ pc[t] = "init_lookup"
    /\ \E found \in BOOLEAN :
          /\ component' = IF found THEN "basic" ELSE "NULL"
          /\ failed' = IF found THEN failed ELSE failed \cup {"lookup"}
          /\ pc' = [pc EXCEPT ![t] = IF found THEN "init_call" ELSE "init_unlock_err"]
    /\ UNCHANGED <<buffer_init, allocator, pagesize, mutex, hstate, fault, op, rc, cur,
                   nAllocatorInit, nFinalize, nConstruct, nDestruct, nullDeref, segVars, seqVars,
                   clsVars>>

\* line 116: component->allocator_init(...) is entered
InitCall(t) ==
    /\ ~fault
    /\ pc[t] = "init_call"
    /\ nAllocatorInit' = nAllocatorInit + 1
    /\ pc' = [pc EXCEPT ![t] = "init_in_strategy"]
    /\ UNCHANGED <<buffer_init, component, allocator, pagesize, mutex, hstate, fault, op,
                   rc, cur, nFinalize, nConstruct, nDestruct, nullDeref, failed, segVars, seqVars,
                   clsVars>>

\* line 116: allocator_init returns a new handle or NULL, stored in the static
InitAssign(t) ==
    /\ ~fault
    /\ pc[t] = "init_in_strategy"
    /\ \E made \in BOOLEAN :
          /\ allocator' = IF made THEN Len(hstate) + 1 ELSE NULL
          /\ hstate' = IF made THEN Append(hstate, "live") ELSE hstate
          /\ failed' = IF made THEN failed ELSE failed \cup {"construct"}
    /\ pc' = [pc EXCEPT ![t] = "init_check"]
    /\ UNCHANGED <<buffer_init, component, pagesize, mutex, fault, op, rc, cur,
                   nAllocatorInit, nFinalize, nConstruct, nDestruct, nullDeref, segVars, seqVars,
                   clsVars>>

\* line 120: the static is read back
InitCheck(t) ==
    /\ ~fault
    /\ pc[t] = "init_check"
    /\ pc' = [pc EXCEPT ![t] = IF allocator = NULL THEN "init_unlock_err" ELSE "init_pagesize"]
    /\ UNCHANGED <<buffer_init, component, allocator, pagesize, mutex, hstate, fault, op,
                   rc, cur, nAllocatorInit, nFinalize, nConstruct, nDestruct, nullDeref,
                   failed, segVars, seqVars,
                   clsVars>>

\* line 125: opal_getpagesize() reports the system's page size
InitPagesize(t) ==
    /\ ~fault
    /\ pc[t] = "init_pagesize"
    /\ \E ps \in PageSizes : pagesize' = ps
    /\ pc' = [pc EXCEPT ![t] = "init_unlock"]
    /\ UNCHANGED <<buffer_init, component, allocator, mutex, hstate, fault, op, rc, cur,
                   nAllocatorInit, nFinalize, nConstruct, nDestruct, nullDeref, failed,
                   segVars, seqVars, clsVars>>

\* lines 127-128
InitUnlock(t) ==
    /\ ~fault
    /\ pc[t] = "init_unlock"
    /\ UnlockStep(t)
    /\ InitReturn(t, OMPI_SUCCESS)
    /\ UNCHANGED <<buffer_init, component, allocator, pagesize, hstate, fault, op, cur,
                   nAllocatorInit, nFinalize, nConstruct, nDestruct, nullDeref, failed,
                   segVars, seqVars, clsVars>>

\* lines 111-112 and 121-122
InitUnlockErr(t) ==
    /\ ~fault
    /\ pc[t] = "init_unlock_err"
    /\ UnlockStep(t)
    /\ InitReturn(t, OMPI_ERR_BUFFER)
    /\ UNCHANGED <<buffer_init, component, allocator, pagesize, hstate, fault, op, cur,
                   nAllocatorInit, nFinalize, nConstruct, nDestruct, nullDeref, failed,
                   segVars, seqVars, clsVars>>

\* ------------------------------------------------ calls through the handle
\* `mca_common_ompio_allocator->alc_xxx(mca_common_ompio_allocator, ...)`
\* (lines 135, 153, 170) reads the static and calls through it.  With a live
\* handle the strategy operation starts (the thread moves to `inpc`).  Through a
\* NULL handle the load of the function pointer faults and the process crashes.
\* Through a handle that alc_finalize has been called on the call is undefined:
\* the process crashes, or the operation runs on the torn-down instance.
CallThroughHandle(t, kind, inpc) ==
    \/ /\ allocator = NULL
       /\ nullDeref' = nullDeref \cup {kind}
       /\ fault' = TRUE
       /\ UNCHANGED <<pc, cur>>
    \/ /\ allocator # NULL
       /\ hstate[allocator] = "live"
       /\ cur' = [cur EXCEPT ![t] = allocator]
       /\ pc' = [pc EXCEPT ![t] = inpc]
       /\ UNCHANGED <<fault, nullDeref>>
    \/ /\ allocator # NULL
       /\ hstate[allocator] # "live"
       /\ \/ /\ fault' = TRUE
             /\ UNCHANGED <<pc, cur>>
          \/ /\ UNCHANGED fault
             /\ cur' = [cur EXCEPT ![t] = allocator]
             /\ pc' = [pc EXCEPT ![t] = inpc]
       /\ UNCHANGED nullDeref

\* ------------------------------------------- mca_common_ompio_buffer_alloc_fini
\* faulty variant of the test below: the teardown is not guarded
HandlePresentAlways(h) == TRUE

\* line 133: the test that guards the teardown
HandlePresent(h) == h # NULL

\* line 133 (and line 141 when there is no handle)
FiniCheck(t) ==
    /\ ~fault
    /\ pc[t] = "idle"
    /\ op' = [op EXCEPT ![t] = "fini"]
    /\ IF HandlePresent(allocator)
         THEN /\ pc' = [pc EXCEPT ![t] = "fini_lock"]
              /\ UNCHANGED rc
         ELSE /\ pc' = [pc EXCEPT ![t] = "done"]
              /\ rc' = [rc EXCEPT ![t] = OMPI_SUCCESS]
    /\ UNCHANGED <<buffer_init, component, allocator, pagesize, mutex, hstate, fault, cur,
                   nAllocatorInit, nFinalize, nConstruct, nDestruct, nullDeref, failed,
                   segVars, seqVars, clsVars>>

\* line 134
FiniLock(t) ==
    /\ ~fault
    /\ pc[t] = "fini_lock"
    /\ LockStep(t)
    /\ Goto(t, "fini_call")
    /\ UNCHANGED <<buffer_init, component, allocator, pagesize, hstate, op, rc, cur,
                   nAllocatorInit, nFinalize, nConstruct, nDestruct, nullDeref, failed,
                   segVars, seqVars, clsVars>>

\* line 135: alc_finalize is entered
FiniCall(t) ==
    /\ ~fault
    /\ pc[t] = "fini_call"
    /\ CallThroughHandle(t, "finalize", "fini_in_strategy")
    /\ IF pc'[t] = "fini_in_strategy"
         THEN /\ nFinalize' = nFinalize + 1
              /\ hstate' = [hstate EXCEPT ![allocator] = "finalizing"]
         ELSE UNCHANGED <<nFinalize, hstate>>
    /\ UNCHANGED <<buffer_init, component, allocator, pagesize, mutex, op, rc,
                   nAllocatorInit, nConstruct, nDestruct, failed, segVars, seqVars,
                   clsVars>>

\* line 135: alc_finalize returns; the strategy instance is gone
FiniStrategyReturn(t) ==
    /\ ~fault
    /\ pc[t] = "fini_in_strategy"
    /\ hstate' = [hstate EXCEPT ![cur[t]] = "dead"]
    /\ cur' = [cur EXCEPT ![t] = NULL]
    /\ pc' = [pc EXCEPT ![t] = "fini_clear"]
    /\ UNCHANGED <<buffer_init, component, allocator, pagesize, mutex, fault, op, rc,
                   nAllocatorInit, nFinalize, nConstruct, nDestruct, nullDeref, failed,
                   segVars, seqVars, clsVars>>

\* line 136
FiniClear(t) ==
    /\ ~fault
    /\ pc[t] = "fini_clear"
    /\ allocator' = NULL
    /\ pc' = [pc EXCEPT ![t] = "fini_unlock"]
    /\ UNCHANGED <<buffer_init, component, pagesize, mutex, hstate, fault, op, rc, cur,
                   nAllocatorInit, nFinalize, nConstruct, nDestruct, nullDeref, failed,
                   segVars, seqVars, clsVars>>

\* line 137
FiniUnlock(t) ==
    /\ ~fault
    /\ pc[t] = "fini_unlock"
    /\ UnlockStep(t)
    /\ pc' = [pc EXCEPT ![t] = "fini_destruct"]
    /\ UNCHANGED <<buffer_init, component, allocator, pagesize, hstate, fault, op, rc, cur,
                   nAllocatorInit, nFinalize, nConstruct, nDestruct, nullDeref, failed,
                   segVars, seqVars, clsVars>>

\* lines 138 and 141: OBJ_DESTRUCT, whoever holds or waits for the mutex
FiniDestruct(t) ==
    /\ ~fault
    /\ pc[t] = "fini_destruct"
    /\ mutex' = [mutex EXCEPT !.state = "destructed"]
    /\ nDestruct' = nDestruct + 1
    /\ pc' = [pc EXCEPT ![t] = "done"]
    /\ rc' = [rc EXCEPT ![t] = OMPI_SUCCESS]
    /\ UNCHANGED <<buffer_init, component, allocator, pagesize, hstate, fault, op, cur,
                   nAllocatorInit, nFinalize, nConstruct, nullDeref, failed, segVars, seqVars,
                   clsVars>>

\* ---------------------------------------------------- mca_common_ompio_alloc_buf
\* line 148: a plain read of the counter decides whether alloc_init is called
AllocBufCheck(t) ==
    /\ ~fault
    /\ pc[t] = "idle"
    /\ op' = [op EXCEPT ![t] = "alloc"]
    /\ pc' = [pc EXCEPT ![t] = IF buffer_init = 0 THEN "ab_init" ELSE "ab_lock"]
    /\ UNCHANGED <<buffer_init, component, allocator, pagesize, mutex, hstate, fault, rc,
                   cur, nAllocatorInit, nFinalize, nConstruct, nDestruct, nullDeref,
                   failed, segVars, seqVars,
                   clsVars>>

\* line 152
AllocBufLock(t) ==
    /\ ~fault
    /\ pc[t] = "ab_lock"
    /\ LockStep(t)
    /\ Goto(t, "ab_call")
    /\ UNCHANGED <<buffer_init, component, allocator, pagesize, hstate, op, rc, cur,
                   nAllocatorInit, nFinalize, nConstruct, nDestruct, nullDeref, failed,
                   segVars, seqVars, clsVars>>

\* line 153: alc_alloc is entered
AllocBufCall(t) ==
    /\ ~fault
    /\ pc[t] = "ab_call"
    /\ CallThroughHandle(t, "alloc", "ab_in_strategy")
    /\ UNCHANGED <<buffer_init, component, allocator, pagesize, mutex, hstate, op, rc,
                   nAllocatorInit, nFinalize, nConstruct, nDestruct, failed, segVars, seqVars,
                   clsVars>>

\* line 153: alc_alloc returns a buffer or NULL into tmp
AllocBufStrategyReturn(t) ==
    /\ ~fault
    /\ pc[t] = "ab_in_strategy"
    /\ \E tmp \in {"NULL", "BUF"} : rc' = [rc EXCEPT ![t] = tmp]
    /\ cur' = [cur EXCEPT ![t] = NULL]
    /\ pc' = [pc EXCEPT ![t] = "ab_unlock"]
    /\ UNCHANGED <<buffer_init, component, allocator, pagesize, mutex, hstate, fault, op,
                   nAllocatorInit, nFinalize, nConstruct, nDestruct, nullDeref, failed,
                   segVars, seqVars, clsVars>>

\* lines 155-156
AllocBufUnlock(t) ==
    /\ ~fault
    /\ pc[t] = "ab_unlock"
    /\ UnlockStep(t)
    /\ pc' = [pc EXCEPT ![t] = "done"]
    /\ UNCHANGED <<buffer_init, component, allocator, pagesize, hstate, fault, op, rc, cur,
                   nAllocatorInit, nFinalize, nConstruct, nDestruct, nullDeref, failed,
                   segVars, seqVars, clsVars>>

\* -------------------------------------------------- mca_common_ompio_release_buf
\* lines 162-167: with the counter at 0 a message is printed (no state of the
\* allocator changes), and the function goes on in either case
ReleaseBufCheck(t) ==
    /\ ~fault
    /\ pc[t] = "idle"
    /\ op' = [op EXCEPT ![t] = "release"]
    /\ pc' = [pc EXCEPT ![t] = "rb_lock"]
    /\ UNCHANGED <<buffer_init, component, allocator, pagesize, mutex, hstate, fault, rc,
                   cur, nAllocatorInit, nFinalize, nConstruct, nDestruct, nullDeref,
                   failed, segVars, seqVars,
                   clsVars>>

\* line 169
ReleaseBufLock(t) ==
    /\ ~fault
    /\ pc[t] = "rb_lock"
    /\ LockStep(t)
    /\ Goto(t, "rb_call")
    /\ UNCHANGED <<buffer_init, component, allocator, pagesize, hstate, op, rc, cur,
                   nAllocatorInit, nFinalize, nConstruct, nDestruct, nullDeref, failed,
                   segVars, seqVars, clsVars>>

\* line 170: alc_free is entered
ReleaseBufCall(t) ==
    /\ ~fault
    /\ pc[t] = "rb_call"
    /\ CallThroughHandle(t, "free", "rb_in_strategy")
    /\ UNCHANGED <<buffer_init, component, allocator, pagesize, mutex, hstate, op, rc,
                   nAllocatorInit, nFinalize, nConstruct, nDestruct, failed, segVars, seqVars,
                   clsVars>>

\* line 170: alc_free returns
ReleaseBufStrategyReturn(t) ==
    /\ ~fault
    /\ pc[t] = "rb_in_strategy"
    /\ cur' = [cur EXCEPT ![t] = NULL]
    /\ pc' = [pc EXCEPT ![t] = "rb_unlock"]
    /\ UNCHANGED <<buffer_init, component, allocator, pagesize, mutex, hstate, fault, op,
                   rc, nAllocatorInit, nFinalize, nConstruct, nDestruct, nullDeref, failed,
                   segVars, seqVars, clsVars>>

\* lines 172-174
ReleaseBufUnlock(t) ==
    /\ ~fault
    /\ pc[t] = "rb_unlock"
    /\ UnlockStep(t)
    /\ pc' = [pc EXCEPT ![t] = "done"]
    /\ rc' = [rc EXCEPT ![t] = "void"]
    /\ UNCHANGED <<buffer_init, component, allocator, pagesize, hstate, fault, op, cur,
                   nAllocatorInit, nFinalize, nConstruct, nDestruct, nullDeref, failed,
                   segVars, seqVars, clsVars>>

\* ---------------------------------------------------------- segment callbacks
AllPageSizes == {DefaultPageSize} \cup PageSizes

\* sizes the strategy may ask for: around the first page multiples, ten pages,
\* and the top of the size_t range
ReqSizes ==
    {s \in ({k * P + d : k \in 0..MaxPages, P \in AllPageSizes, d \in -1..1}
             \cup {10 * P : P \in AllPageSizes}
             \cup {SIZE_MAX - P + d : P \in AllPageSizes, d \in 0..2}
             \cup {SIZE_MAX - d : d \in 0..1}) : s >= 0 /\ s <= SIZE_MAX}

\* faulty variant of line 71: one page more than the whole pages of the request
NumPagesPlusOne(size, ps) == (size \div ps) + 1

\* line 71, in size_t arithmetic
NumPages(size, ps) == ((size + ps - 1) % SizeMod) \div ps

\* line 72, in size_t arithmetic
RealSize(size, ps) == (NumPages(size, ps) * ps) % SizeMod

Bufs == 1..MaxSegs
NoRequest == -1                      \* segreq before the first call

\* mca_common_ompio_buffer_alloc_seg, lines 66-82: malloc hands out a fresh
\* buffer or NULL; a buffer is registered with the accelerator (the result of
\* host_register is not looked at, so the registration may not have happened)
AllocSeg(size) ==
    /\ segreq' = size
    /\ segsize' = RealSize(size, pagesize)
    /\ \/ /\ segbuf' = NULL
          /\ UNCHANGED segs
       \/ \E b \in Bufs, registered \in BOOLEAN :
             /\ segs[b].st = "none"
             /\ \A c \in Bufs : c < b => segs[c].st # "none"
             /\ segbuf' = b
             /\ segs' = [segs EXCEPT ![b] = [st |-> "live", reg |-> registered,
                                             unreg |-> FALSE]]
    /\ UNCHANGED <<facadeVars, pagesize, segfree, seqVars, clsVars>>

\* segfree before the first free_seg call
NoFree == [buf |-> NoRequest, queried |-> FALSE, unregistered |-> FALSE, freed |-> FALSE]

\* mca_common_ompio_buffer_free_seg, lines 84-96, on NULL: line 88 skips the body
FreeSegNull ==
    /\ segfree' = [buf |-> NULL, queried |-> FALSE, unregistered |-> FALSE,
                   freed |-> FALSE]
    /\ UNCHANGED <<facadeVars, pagesize, segreq, segsize, segbuf, segs, seqVars, clsVars>>

\* line 90: 0 == opal_accelerator.check_addr(...)
IsHostMemory(r) == r = 0

\* mca_common_ompio_buffer_free_seg, lines 84-96, on a buffer alloc_seg returned:
\* check_addr answers r (negative: failure, 0: host memory, positive: device
\* memory); only on 0 is host_unregister called, which may fail; then free()
FreeSeg(b) ==
    /\ segs[b].st = "live"
    /\ \E r \in {-1, 0, 1}, unregistered \in BOOLEAN :
          /\ segs' = [segs EXCEPT ![b] =
                      [st |-> "freed",
                       reg |-> IF IsHostMemory(r) /\ unregistered THEN FALSE
                                                                 ELSE segs[b].reg,
                       unreg |-> IsHostMemory(r)]]
          /\ segfree' = [buf |-> b, queried |-> TRUE, unregistered |-> IsHostMemory(r),
                         freed |-> TRUE]
    /\ UNCHANGED <<facadeVars, pagesize, segreq, segsize, segbuf, seqVars, clsVars>>

\* ------------------------------------------------------------------ the caller
\* lines 103, 112, 122, 128, 141, 156, 174: the facade function has returned rc[t]
\* to the application, which goes on to its next call
Return(t) ==
    /\ ~fault
    /\ pc[t] = "done"
    /\ pc' = [pc EXCEPT ![t] = "idle"]
    /\ op' = [op EXCEPT ![t] = "none"]
    /\ rc' = [rc EXCEPT ![t] = "none"]
    /\ UNCHANGED <<buffer_init, component, allocator, pagesize, mutex, hstate, fault, cur,
                   nAllocatorInit, nFinalize, nConstruct, nDestruct, nullDeref, failed,
                   segVars, seqVars, clsVars>>

\* ------------------------------------------------- one caller, one call per step
\* A single thread calls the facade functions one after the other; each call runs
\* to its return (or to a crash, or blocks for good) in one step.  The statements
\* of a function are applied in program order to a record of the statics.
SeqCaller == CHOOSE t \in Threads : \A u \in Threads : t <= u

\* seq before the first call
NoCall ==
    [op |-> "none", size |-> NoRequest, ptr |-> "none", rc |-> "none",
     served |-> FALSE, stage |-> 0, tripsize |-> NoRequest]

\* the statics as the call finds them; st, served and ret describe the call
Statics ==
    [cnt |-> buffer_init, comp |-> component, h |-> allocator, ps |-> pagesize,
     m |-> mutex, hs |-> hstate, fl |-> failed, nai |-> nAllocatorInit,
     nf |-> nFinalize, nc |-> nConstruct, nd |-> nDestruct, nul |-> nullDeref,
     st |-> "ok", served |-> FALSE, ret |-> "none"]

\* OPAL_THREAD_LOCK as in LockStep; a lock that is not granted blocks the caller
SeqLock(S) ==
    LET granted == IF S.m.owner = NoOwner
                     THEN [S EXCEPT !.m.owner = SeqCaller]
                     ELSE [S EXCEPT !.st = "hang"]
    IN  IF S.m.state = "constructed"
          THEN {granted}
          ELSE {granted, S, [S EXCEPT !.st = "fault"]}

\* OPAL_THREAD_UNLOCK as in UnlockStep
SeqUnlock(S) ==
    IF S.m.state = "constructed" /\ S.m.owner = SeqCaller
      THEN {[S EXCEPT !.m.owner = NoOwner]}
      ELSE {[S EXCEPT !.m.owner = NoOwner], S}

\* a call through the static handle as in CallThroughHandle, run to its return
SeqCall(S, kind) ==
    LET ran == IF kind = "finalize"
                 THEN [S EXCEPT !.served = TRUE, !.nf = @ + 1, !.hs[S.h] = "dead"]
                 ELSE [S EXCEPT !.served = TRUE]
    IN  IF S.h = NULL
          THEN {[S EXCEPT !.st = "fault", !.nul = @ \cup {kind}]}
          ELSE IF S.hs[S.h] = "live"
                 THEN {ran}
                 ELSE {[S EXCEPT !.st = "fault"], ran}

\* lines 110-113 and 116-128 of alloc_init, under the lock, up to the unlock
SeqInitLocked(S) ==
    LET nolookup == [S EXCEPT !.comp = "NULL", !.fl = @ \cup {"lookup"},
                              !.ret = OMPI_ERR_BUFFER]
        called   == [S EXCEPT !.comp = "basic", !.nai = @ + 1]
        nohandle == [called EXCEPT !.h = NULL, !.fl = @ \cup {"construct"},
                                   !.ret = OMPI_ERR_BUFFER]
        made     == {[called EXCEPT !.h = Len(S.hs) + 1, !.hs = Append(S.hs, "live"),
                                    !.ps = p, !.ret = OMPI_SUCCESS] : p \in PageSizes}
    IN  {nolookup, nohandle} \cup made

\* faulty variant of the exit below: the lock is kept
ReleaseBufExitLocked(S) == {[S EXCEPT !.ret = "void"]}

\* lines 172-174 of release_buf
ReleaseBufExit(S) == {[T EXCEPT !.ret = "void"] : T \in SeqUnlock(S)}

\* one statement of a facade function
SeqStep(stmt, S) ==
    CASE stmt = "lock"         -> SeqLock(S)
      [] stmt = "unlock"       -> SeqUnlock(S)
      [] stmt = "init"         -> SeqInitLocked(S)
      [] stmt = "alc_finalize" -> SeqCall(S, "finalize")
      [] stmt = "alc_alloc"    -> SeqCall(S, "alloc")
      [] stmt = "alc_free"     -> SeqCall(S, "free")
      [] stmt = "clear"        -> {[S EXCEPT !.h = NULL]}
      [] stmt = "destruct"     -> {[S EXCEPT !.m.state = "destructed", !.nd = @ + 1]}
      [] stmt = "return tmp"   -> {[S EXCEPT !.ret = tmp] : tmp \in {"NULL", "BUF"}}
      [] stmt = "return"       -> {[S EXCEPT !.ret = OMPI_SUCCESS]}
      [] stmt = "release exit" -> ReleaseBufExit(S)

\* the next statement, applied to every outcome so far in which the call still runs
Then(Ss, stmt) == UNION {IF S.st = "ok" THEN SeqStep(stmt, S) ELSE {S} : S \in Ss}

\* mca_common_ompio_buffer_alloc_init, lines 98-129
SeqInitBody(S) ==
    LET counted == [S EXCEPT !.cnt = @ + 1]
        built   == [counted EXCEPT !.m = [state |-> "constructed", owner |-> NoOwner],
                                   !.nc = @ + 1]
    IN  IF SkipsConstruction(counted.cnt)
          THEN {[counted EXCEPT !.ret = OMPI_SUCCESS]}
          ELSE Then(Then(Then({built}, "lock"), "init"), "unlock")

\* mca_common_ompio_buffer_alloc_fini, lines 131-142
SeqFiniBody(S) ==
    IF HandlePresent(S.h)
      THEN Then(Then(Then(Then(Then(Then({S}, "lock"), "alc_finalize"), "clear"),
                          "unlock"), "destruct"), "return")
      ELSE Then({S}, "return")

\* mca_common_ompio_alloc_buf, lines 144-157; the result of alloc_init is dropped
SeqAllocBody(S) ==
    LET entered == IF S.cnt = 0 THEN SeqInitBody(S) ELSE {S}
    IN  Then(Then(Then(Then(entered, "lock"), "alc_alloc"), "return tmp"), "unlock")

\* mca_common_ompio_release_buf, lines 159-175; line 162 only prints a message
SeqReleaseBody(S) ==
    Then(Then(Then({S}, "lock"), "alc_free"), "release exit")

\* the statics after the call, and what the caller got
SeqInstall(R, call) ==
    /\ buffer_init' = R.cnt
    /\ component' = R.comp
    /\ allocator' = R.h
    /\ pagesize' = R.ps
    /\ mutex' = R.m
    /\ hstate' = R.hs
    /\ failed' = R.fl
    /\ nAllocatorInit' = R.nai
    /\ nFinalize' = R.nf
    /\ nConstruct' = R.nc
    /\ nDestruct' = R.nd
    /\ nullDeref' = R.nul
    /\ fault' = (R.st = "fault")
    /\ seq' = [call EXCEPT !.rc = IF R.st = "ok" THEN R.ret ELSE R.st,
                           !.served = R.served]
    /\ UNCHANGED <<pc, op, rc, cur, segVars, clsVars>>

\* the caller's next call can be made
SeqReady == ~fault /\ seq.rc # "hang"

\* sizes the application asks for: around one page, and ten pages
BufSizes ==
    {0, 1} \cup {P + d : P \in AllPageSizes, d \in -1..1} \cup {10 * P : P \in AllPageSizes}

\* how far the calls so far got through allocate(s), release(ptr), allocate(s):
\* 1 after an allocate(s) that returned a buffer, 2 after the release of it,
\* 3 after the next allocate(s) was called
TripAfterAlloc(s, R) ==
    IF seq.stage = 2 /\ seq.tripsize = s
      THEN [stage |-> 3, tripsize |-> s]
      ELSE IF R.st = "ok" /\ R.served /\ R.ret = "BUF"
             THEN [stage |-> 1, tripsize |-> s]
             ELSE [stage |-> 0, tripsize |-> NoRequest]

TripAfterRelease(p, R) ==
    IF seq.stage = 1 /\ p = "BUF" /\ R.st = "ok"
      THEN [stage |-> 2, tripsize |-> seq.tripsize]
      ELSE [stage |-> 0, tripsize |-> NoRequest]

SeqAllocInit ==
    /\ SeqReady
    /\ buffer_init < MaxInit
    /\ \E R \in SeqInitBody(Statics) :
          SeqInstall(R, [NoCall EXCEPT !.op = "init"])

SeqAllocFini ==
    /\ SeqReady
    /\ \E R \in SeqFiniBody(Statics) :
          SeqInstall(R, [NoCall EXCEPT !.op = "fini"])

SeqAllocBuf(s) ==
    /\ SeqReady
    /\ \E R \in SeqAllocBody(Statics) :
          SeqInstall(R, [NoCall EXCEPT !.op = "alloc", !.size = s,
                                       !.stage = TripAfterAlloc(s, R).stage,
                                       !.tripsize = TripAfterAlloc(s, R).tripsize])

SeqReleaseBuf(p) ==
    /\ SeqReady
    /\ \E R \in SeqReleaseBody(Statics) :
          SeqInstall(R, [NoCall EXCEPT !.op = "release", !.ptr = p,
                                       !.stage = TripAfterRelease(p, R).stage,
                                       !.tripsize = TripAfterRelease(p, R).tripsize])

\* ------------------------------------------------ mca_common_ompio_check_gpu_buf
\* f_flags of the file and the flags check_addr reports, as sets of the bits set
FileFlags == {"OMPI_FILE_ASSERT_NO_ACCEL_BUF", "OMPI_FILE_ASSERT_NO_OVERLAP", "OMPI_FILE_IS_OPEN"}
AccelFlags == {"MCA_ACCELERATOR_FLAGS_UNIFIED_MEMORY", "MCA_ACCELERATOR_FLAGS_HOST_LDSTR"}

\* the buffers the application passes, by where they live
BufKinds == {"host", "device", "managed"}

\* check_addr: negative on failure, 0 for host memory, positive for device memory
CheckAddrResults == {-1, 0, 1}

\* cls before the first call
NoClassify ==
    [f_flags |-> {}, buf |-> "none", queried |-> FALSE, r |-> 0, flags |-> {},
     is_gpu |-> 0, is_managed |-> 0]

\* faulty variant of the test below: the hint is not looked at
AssertsNoAccelBufNever(f) == FALSE

\* line 52: fh->f_fh->f_flags & OMPI_FILE_ASSERT_NO_ACCEL_BUF
AssertsNoAccelBuf(f) == "OMPI_FILE_ASSERT_NO_ACCEL_BUF" \in f

\* faulty variant of the test below: a failed query counts as device memory
OnDeviceOrFailed(r) == r # 0

\* line 56: 0 < opal_accelerator.check_addr(...)
OnDevice(r) == 0 < r

\* lines 43-64: the outputs are cleared; with the hint nothing else happens;
\* otherwise check_addr answers r and flags for the buffer
CheckGpuBuf ==
    /\ \E f \in SUBSET FileFlags, b \in BufKinds,
          r \in CheckAddrResults, fl \in SUBSET AccelFlags :
          cls' = IF AssertsNoAccelBuf(f)
                   THEN [f_flags |-> f, buf |-> b, queried |-> FALSE, r |-> 0,
                         flags |-> {}, is_gpu |-> 0, is_managed |-> 0]
                   ELSE [f_flags |-> f, buf |-> b, queried |-> TRUE, r |-> r,
                         flags |-> fl,
                         is_gpu |-> IF OnDevice(r) THEN 1 ELSE 0,
                         is_managed |->
                             IF OnDevice(r) /\ "MCA_ACCELERATOR_FLAGS_UNIFIED_MEMORY" \in fl
                               THEN 1 ELSE 0]
    /\ UNCHANGED <<facadeVars, pagesize, segVars, seqVars>>

\* --------------------------------------------------------------- specifications
Init ==
    /\ buffer_init = 0
    /\ component = "NULL"
    /\ allocator = NULL
    /\ pagesize = DefaultPageSize
    /\ mutex = [state |-> "zero", owner |-> NoOwner]
    /\ hstate = <<>>
    /\ fault = FALSE
    /\ pc = [t \in Threads |-> "idle"]
    /\ op = [t \in Threads |-> "none"]
    /\ rc = [t \in Threads |-> "none"]
    /\ cur = [t \in Threads |-> NULL]
    /\ nAllocatorInit = 0
    /\ nFinalize = 0
    /\ nConstruct = 0
    /\ nDestruct = 0
    /\ nullDeref = {}
    /\ failed = {}
    /\ segreq = NoRequest
    /\ segsize = 0
    /\ segbuf = NULL
    /\ segs = [b \in Bufs |-> [st |-> "none", reg |-> FALSE, unreg |-> FALSE]]
    /\ segfree = NoFree
    /\ seq = NoCall
    /\ cls = NoClassify

\* the steps of mca_common_ompio_buffer_alloc_init called by the application
InitNext ==
    \/ \E t \in Threads : InitFetch(t)
    \/ \E t \in Threads : InitConstruct(t)
    \/ \E t \in Threads : InitLock(t)
    \/ \E t \in Threads : InitLookup(t)
    \/ \E t \in Threads : InitCall(t)
    \/ \E t \in Threads : InitAssign(t)
    \/ \E t \in Threads : InitCheck(t)
    \/ \E t \in Threads : InitPagesize(t)
    \/ \E t \in Threads : InitUnlock(t)
    \/ \E t \in Threads : InitUnlockErr(t)
    \/ \E t \in Threads : Return(t)

Next ==
    \/ InitNext
    \/ \E t \in Threads : InitFetchFromAlloc(t)
    \/ \E t \in Threads : FiniCheck(t)
    \/ \E t \in Threads : FiniLock(t)
    \/ \E t \in Threads : FiniCall(t)
    \/ \E t \in Threads : FiniStrategyReturn(t)
    \/ \E t \in Threads : FiniClear(t)
    \/ \E t \in Threads : FiniUnlock(t)
    \/ \E t \in Threads : FiniDestruct(t)
    \/ \E t \in Threads : AllocBufCheck(t)
    \/ \E t \in Threads : AllocBufLock(t)
    \/ \E t \in Threads : AllocBufCall(t)
    \/ \E t \in Threads : AllocBufStrategyReturn(t)
    \/ \E t \in Threads : AllocBufUnlock(t)
    \/ \E t \in Threads : ReleaseBufCheck(t)
    \/ \E t \in Threads : ReleaseBufLock(t)
    \/ \E t \in Threads : ReleaseBufCall(t)
    \/ \E t \in Threads : ReleaseBufStrategyReturn(t)
    \/ \E t \in Threads : ReleaseBufUnlock(t)

\* every facade function, from every thread
Spec == Init /\ [][Next]_vars

\* initSubsystem alone, from every thread
InitSpec == Init /\ [][InitNext]_vars

\* the segment callbacks, called back by a constructed strategy
SegInit ==
    /\ buffer_init = 1
    /\ component = "basic"
    /\ allocator = 1
    /\ pagesize \in PageSizes
    /\ mutex = [state |-> "constructed", owner |-> NoOwner]
    /\ hstate = <<"live">>
    /\ fault = FALSE
    /\ pc = [t \in Threads |-> "idle"]
    /\ op = [t \in Threads |-> "none"]
    /\ rc = [t \in Threads |-> "none"]
    /\ cur = [t \in Threads |-> NULL]
    /\ nAllocatorInit = 1
    /\ nFinalize = 0
    /\ nConstruct = 1
    /\ nDestruct = 0
    /\ nullDeref = {}
    /\ failed = {}
    /\ segreq = NoRequest
    /\ segsize = 0
    /\ segbuf = NULL
    /\ segs = [b \in Bufs |-> [st |-> "none", reg |-> FALSE, unreg |-> FALSE]]
    /\ segfree = NoFree
    /\ seq = NoCall
    /\ cls = NoClassify

SegNext ==
    \/ \E size \in ReqSizes : AllocSeg(size)
    \/ \E b \in Bufs : FreeSeg(b)
    \/ FreeSegNull

SegSpec == SegInit /\ [][SegNext]_vars

\* the facade functions called one after the other by a single thread
SeqNext ==
    \/ SeqAllocInit
    \/ SeqAllocFini
    \/ \E s \in BufSizes : SeqAllocBuf(s)
    \/ \E p \in {"NULL", "BUF"} : SeqReleaseBuf(p)

SeqSpec == Init /\ [][SeqNext]_vars

\* the classifier, called with every file hint, buffer and runtime answer
ClassifyNext == CheckGpuBuf

ClassifySpec == Init /\ [][ClassifyNext]_vars

\* ======================================================================
\* Properties
\* ======================================================================
StrategyPCs == {"init_in_strategy", "fini_in_strategy", "ab_in_strategy", "rb_in_strategy"}
InStrategy == {t \in Threads : pc[t] \in StrategyPCs}
Quiescent == \A t \in Threads : pc[t] \in {"idle", "done"}
\* this step calls the strategy operation `kind` through a NULL handle
NullCall(kind) == kind \in nullDeref' /\ kind \notin nullDeref

\* C1 (InitSpec): when only alloc_init is called, from every thread, and
\* neither the lookup nor the construction fails, allocator_init is invoked
\* exactly once in total (never twice; once when all calls are over), every
\* call returns OMPI_SUCCESS, and a caller whose fetch-and-add result is above 1
\* returns at once without touching the mutex, the component or the handle.
C1_IdempotentInit ==
    /\ [](/\ nAllocatorInit <= 1
          /\ failed = {} =>
                /\ \A t \in Threads : pc[t] = "done" => rc[t] = OMPI_SUCCESS
                /\ (Quiescent /\ buffer_init >= 1) => nAllocatorInit = 1)
    /\ [][\A t \in Threads :
             (pc[t] = "idle" /\ pc'[t] # "idle" /\ buffer_init' > 1)
                => /\ pc'[t] = "done"
                   /\ rc'[t] = OMPI_SUCCESS
                   /\ UNCHANGED <<mutex, component, allocator, pagesize, nAllocatorInit,
                                  nConstruct>>]_vars

\* C1 witness: every thread's alloc_init has returned OMPI_SUCCESS, one
\* construction was made
C1_Witness ==
    /\ \A t \in Threads : pc[t] = "done" /\ op[t] = "init" /\ rc[t] = OMPI_SUCCESS
    /\ buffer_init = NumThreads
    /\ nAllocatorInit = 1
    /\ allocator # NULL

\* C2 (as claimed): no alloc_buf or release_buf call goes through the handle
\* while it is partially constructed (alloc_init entered, handle not yet set)
\* or partially destroyed (alc_finalize called on it, or the handle cleared).
C2_NoPartialHandleUse ==
    [][/\ buffer_init >= 1 => ~(NullCall("alloc") \/ NullCall("free"))
       /\ \A t \in Threads :
             (pc[t] \in {"ab_call", "rb_call"} /\ pc'[t] \in {"ab_in_strategy", "rb_in_strategy"})
                => hstate[allocator] = "live"]_vars

\* C3 (as claimed): an alloc_buf entered after alloc_fini has torn the handle
\* down re-runs the construction (it goes into alloc_init, past line 102)
\* instead of going straight to the lock and the call through the handle.
C3_FiniThenAllocRebuilds ==
    [][\A t \in Threads :
          (pc[t] = "idle" /\ op'[t] = "alloc" /\ nDestruct >= 1 /\ allocator = NULL)
             => pc'[t] = "ab_init"]_vars

\* C4 (as claimed): at most one strategy operation runs at any time, and the
\* thread running it holds the constructed mutex.
C4_StrategySerialized ==
    /\ Cardinality(InStrategy) <= 1
    /\ \A t \in InStrategy : mutex.state = "constructed" /\ mutex.owner = t

\* exact ceiling of a / b
Ceil(a, b) == (a + b - 1) \div b

\* C5 (as claimed): for every requested size, buffer_alloc_seg reports
\* ceil(size / pagesize) * pagesize, which is at least the requested size.
C5_PageRounding ==
    segreq # NoRequest
       => /\ segsize = Ceil(segreq, pagesize) * pagesize
          /\ segsize >= segreq

\* C6 (as claimed): a request of 0 <= size < pagesize reports exactly one page.
C6_SubPageIsOnePage ==
    (segreq # NoRequest /\ segreq < pagesize) => segsize = pagesize

\* C6 (amended): a request of 1 <= size < pagesize reports exactly one page; a
\* request of size 0 reports 0.
C6_NonZeroSubPageIsOnePage ==
    /\ (segreq >= 1 /\ segreq < pagesize) => segsize = pagesize
    /\ segreq = 0 => segsize = 0

\* C6 witness: a sub-page request was served with one page
C6_Witness ==
    /\ segreq >= 1
    /\ segreq < pagesize
    /\ segsize = pagesize
    /\ segbuf # NULL

\* C7 (as claimed): when the lookup or the construction fails, alloc_init
\* returns OMPI_ERR_BUFFER, and the alloc_buf that called it returns NULL to
\* its caller instead of going on to the lock and the call through the handle.
C7_FailurePropagates ==
    [][\A t \in Threads :
          (pc[t] = "init_unlock_err" /\ pc'[t] # pc[t])
             => /\ pc'[t] = "done"
                /\ rc'[t] = IF op[t] = "alloc" THEN "NULL" ELSE OMPI_ERR_BUFFER]_vars

\* C8 (as claimed): alloc_buf and release_buf never call alc_alloc or alc_free
\* through a NULL handle, and never lock a mutex that is not constructed.
C8_NoHandleFailsSafely ==
    [][/\ ~(NullCall("alloc") \/ NullCall("free"))
       /\ \A t \in Threads :
             (pc[t] \in {"ab_lock", "rb_lock"} /\ pc'[t] # pc[t])
                => mutex.state = "constructed"]_vars

\* C9 (as claimed): alc_finalize is invoked once per constructed handle, never
\* through a NULL handle, and the mutex is destructed once.
C9_FinalizeOnce ==
    /\ "finalize" \notin nullDeref
    /\ nFinalize <= Len(hstate)
    /\ nDestruct <= nConstruct

\* C10: alloc_fini entered while the handle is NULL returns OMPI_SUCCESS at
\* once: it takes no lock, calls no strategy operation, does not destruct the
\* mutex, and leaves the handle, the counter and the page size as they were.
C10_FiniWithoutHandleIsNoOp ==
    [][\A t \in Threads :
          (pc[t] = "idle" /\ op'[t] = "fini" /\ allocator = NULL)
             => /\ pc'[t] = "done"
                /\ rc'[t] = OMPI_SUCCESS
                /\ UNCHANGED <<buffer_init, component, allocator, pagesize, mutex, hstate,
                               cur, nAllocatorInit, nFinalize, nConstruct, nDestruct,
                               nullDeref>>]_vars

\* C10 witness: alloc_fini has returned after a failed construction, with the
\* mutex still constructed and nothing finalized
C10_Witness ==
    \E t \in Threads :
       /\ pc[t] = "done"
       /\ op[t] = "fini"
       /\ rc[t] = OMPI_SUCCESS
       /\ failed # {}
       /\ allocator = NULL
       /\ nFinalize = 0
       /\ nDestruct = 0
       /\ mutex.state = "constructed"


\* C11: on an initialized allocator, allocate(s) followed by release(ptr), for
\* every requested size s, leaves the handle present and live and the lock
\* constructed and free, and the allocate(s) called next is served: it reaches
\* alc_alloc through the live handle and returns, without a crash or a block.
C11_RoundTripReusable ==
    /\ seq.stage = 2 =>
          /\ ~fault
          /\ HandlePresent(allocator)
          /\ hstate[allocator] = "live"
          /\ mutex = [state |-> "constructed", owner |-> NoOwner]
    /\ seq.stage = 3 =>
          /\ seq.served
          /\ seq.rc \in {"NULL", "BUF"}
          /\ seq.size = seq.tripsize

C11_Witness ==
    /\ seq.stage = 3
    /\ seq.op = "alloc"
    /\ seq.size = pagesize + 1
    /\ seq.served
    /\ seq.rc = "BUF"

C13_HintBypassesRuntime ==
    (cls.buf # "none" /\ "OMPI_FILE_ASSERT_NO_ACCEL_BUF" \in cls.f_flags) =>
        /\ cls.is_gpu = 0
        /\ cls.is_managed = 0
        /\ ~cls.queried

C13_Witness ==
    /\ cls.buf = "device"
    /\ "OMPI_FILE_ASSERT_NO_ACCEL_BUF" \in cls.f_flags
    /\ cls.is_gpu = 0
    /\ ~cls.queried

\* C14: without the hint the classifier asks check_addr and reports
\* (is_gpu, is_managed) = (1, 1) for a positive answer with the unified-memory
\* flag, (1, 0) for a positive answer without it, and (0, 0) for an answer of 0
\* or below; is_managed is never 1 while is_gpu is 0.
C14_ClassifyMapping ==
    /\ (cls.buf # "none" /\ "OMPI_FILE_ASSERT_NO_ACCEL_BUF" \notin cls.f_flags) =>
          /\ cls.queried
          /\ (cls.r > 0 /\ "MCA_ACCELERATOR_FLAGS_UNIFIED_MEMORY" \in cls.flags) =>
                (cls.is_gpu = 1 /\ cls.is_managed = 1)
          /\ (cls.r > 0 /\ "MCA_ACCELERATOR_FLAGS_UNIFIED_MEMORY" \notin cls.flags) =>
                (cls.is_gpu = 1 /\ cls.is_managed = 0)
          /\ cls.r <= 0 => (cls.is_gpu = 0 /\ cls.is_managed = 0)
    /\ cls.is_managed = 1 => cls.is_gpu = 1

C14_Witness ==
    /\ cls.buf = "managed"
    /\ "OMPI_FILE_ASSERT_NO_ACCEL_BUF" \notin cls.f_flags
    /\ cls.r > 0
    /\ "MCA_ACCELERATOR_FLAGS_UNIFIED_MEMORY" \in cls.flags
    /\ cls.is_gpu = 1
    /\ cls.is_managed = 1

\* C15: release_buf(fh, NULL) never faults: whatever was called before it, it
\* returns to its caller.
C15_NullReleaseIsSafe ==
    (seq.op = "release" /\ seq.ptr = "NULL") => (~fault /\ seq.rc = "void")

\* C16: after a failed construction (no handle, counter advanced) a later
\* alloc_init or alloc_buf goes past the counter test and attempts the
\* construction again: the lookup and allocator_init path is entered.
C16_RetryAfterFailedConstruction ==
    [][(/\ failed # {}
        /\ ~HandlePresent(allocator)
        /\ buffer_init > 0
        /\ seq'.op \in {"init", "alloc"})
          => nConstruct' > nConstruct]_vars

\* C17: a segment that is still registered with the accelerator when free_seg
\* frees it has had host_unregister called on it first, whatever check_addr
\* answered.
C17_UnregisterBeforeFree ==
    \A b \in Bufs :
        (segs[b].st = "freed" /\ segs[b].reg) => segs[b].unreg

\* C18: the thread that writes the handle or the cached page size holds the
\* shared lock while it does so, and the page size is written only in the one
\* construction there ever is, so that it never changes afterwards.
C18_WritesUnderLock ==
    [][\A t \in Threads :
          (pc'[t] # pc[t] /\ (allocator' # allocator \/ pagesize' # pagesize \/
                              pc[t] \in {"init_in_strategy", "init_pagesize", "fini_clear"}))
             => /\ mutex.state = "constructed"
                /\ mutex.owner = t
                /\ nAllocatorInit = 1]_vars

\* C19: no call stays inside a facade function for ever: whenever a thread
\* is inside one, some step can be taken.
C19_NoStuckCall ==
    Quiescent \/ ENABLED Next

\* the steps that execute OPAL_THREAD_LOCK (lines 108, 134, 152, 169) and
\* OPAL_THREAD_UNLOCK (lines 111, 121, 127, 137, 155, 172)
LockPCs == {"init_lock", "fini_lock", "ab_lock", "rb_lock"}
UnlockPCs == {"init_unlock", "init_unlock_err", "fini_unlock", "ab_unlock", "rb_unlock"}

\* C20: the shared mutex is locked and unlocked only while it is constructed
\* (not before OBJ_CONSTRUCT, not after OBJ_DESTRUCT), and it is constructed
\* only when it is not already constructed.
C20_MutexUsedWhileConstructed ==
    [][\A t \in Threads :
          /\ (pc[t] \in LockPCs \cup UnlockPCs /\ pc'[t] # pc[t])
                => mutex.state = "constructed"
          /\ (pc[t] = "init_construct" /\ pc'[t] # pc[t])
                => mutex.state # "constructed"]_vars

====
